---- MODULE Spec2Model ----
(***************************************************************************)
(* Host introspection of danbai225/kgo (src/os.go): CpuUsage, DiskUsage,   *)
(* MemoryUsage, GetSystemInfo, GetCpuInfo, GetPidByPort and IsPrivateIp /  *)
(* ClientIp.  Each exported function is one action that runs the whole     *)
(* function on the current content of the kernel files it reads; a Go      *)
(* run-time panic is an outcome of the call (status "panic").              *)
(*                                                                         *)
(* Text is a sequence of one-character strings, a line is the sequence of  *)
(* its whitespace-separated fields (the result of strings.Fields), a file  *)
(* is [present, lines] with lines the result of splitting its content at   *)
(* "\n" (<<>> for an empty content).                                       *)
(***************************************************************************)
EXTENDS Integers, Sequences, FiniteSets, TLC

VARIABLES
    procStat,   \* /proc/stat
    memInfo,    \* /proc/meminfo
    diskProv,   \* what disk.Usage("/") answers
    sysRes,     \* outcome of the last GetSystemInfo / DiskUsage call
    cpuDump,    \* /proc/cpuinfo
    numCPU,     \* runtime.NumCPU()
    cpuRes,     \* outcome of the last GetCpuInfo call
    netTables,  \* /proc/net/{tcp,udp,tcp6,udp6}
    fdLinks,    \* /proc/[0-9]*/fd/[0-9]* in glob order, with their targets
    portArg,    \* the port GetPidByPort is asked about
    portRes,    \* outcome of the last GetPidByPort call
    KPrivCidrs, \* the package-level private CIDR list
    cidrWrites, \* how many times KPrivCidrs has been assigned
    callers     \* the goroutines calling IsPrivateIp / ClientIp

sysVars  == <<procStat, memInfo, diskProv, sysRes>>
cpuVars  == <<cpuDump, numCPU, cpuRes>>
portVars == <<netTables, fdLinks, portArg, portRes>>
privVars == <<KPrivCidrs, cidrWrites, callers>>
vars     == <<sysVars, cpuVars, portVars, privVars>>

----------------------------------------------------------------------------
(* Bounds of the model.                                                    *)

\* uint64 arithmetic wraps; the model keeps the wrap with a narrower word.
UintMod == 1048576
\* numeric fields after the label of a /proc/stat line
MaxNums == 4
\* lines of /proc/stat
MaxStatLines == 2
\* lines of /proc/meminfo
MaxMemLines == 1
\* largest size the disk provider reports to DiskUsage
MaxDisk == 7
\* largest size the disk provider reports to GetSystemInfo
MaxSysDisk == 1
\* lines of /proc/cpuinfo
MaxCpuLines == 4
\* largest runtime.NumCPU()
MaxThreads == 3
\* lines of /proc/cpuinfo carrying vendor_id, model name, cpu MHz, cache size
MaxFieldLines == 3
\* socket records over the four tables together
MaxSockLines == 2
\* descriptor links found by the glob
MaxFds == 2
\* goroutines calling IsPrivateIp / ClientIp at the same time
NumCallers == 2

----------------------------------------------------------------------------
(* Text helpers.                                                           *)

S_cpu      == <<"c", "p", "u">>
S_cpu0     == <<"c", "p", "u", "0">>
S_intr     == <<"i", "n", "t", "r">>
S_MemTotal == <<"M", "e", "m", "T", "o", "t", "a", "l">>
S_MemFree  == <<"M", "e", "m", "F", "r", "e", "e">>
S_kB       == <<"k", "B">>

Digits == {"0", "1", "2", "3", "4", "5", "6", "7", "8", "9"}

DigitVal(c) ==
    CASE c = "0" -> 0 [] c = "1" -> 1 [] c = "2" -> 2 [] c = "3" -> 3
      [] c = "4" -> 4 [] c = "5" -> 5 [] c = "6" -> 6 [] c = "7" -> 7
      [] c = "8" -> 8 [] c = "9" -> 9

\* strings.HasPrefix
HasPrefix(s, p) == Len(s) >= Len(p) /\ SubSeq(s, 1, Len(p)) = p

RECURSIVE ParseDigits(_, _, _)
ParseDigits(s, i, acc) ==
    IF i > Len(s) THEN acc
    ELSE IF acc * 10 + DigitVal(s[i]) >= UintMod THEN UintMod - 1
    ELSE ParseDigits(s, i + 1, acc * 10 + DigitVal(s[i]))

\* strconv.ParseUint(s, 10, 64) with the error dropped: 0 on a syntax
\* error, the largest value on a range error.
ParseUint(s) ==
    IF s = <<>> \/ \E i \in 1..Len(s) : s[i] \notin Digits THEN 0
    ELSE ParseDigits(s, 1, 0)

\* float64(a) / float64(b) of two unsigned integers: a ratio, or NaN / +Inf
\* when the divisor is zero (Go's float division does not panic).
FloatDiv(a, b) ==
    IF b # 0 THEN [k |-> "num", n |-> a, d |-> b]
    ELSE IF a = 0 THEN [k |-> "nan", n |-> 0, d |-> 1]
    ELSE [k |-> "inf", n |-> 0, d |-> 1]

FloatZero == [k |-> "num", n |-> 0, d |-> 1]

----------------------------------------------------------------------------
(* CpuUsage, DiskUsage, MemoryUsage, GetSystemInfo.                        *)

\* The inner loop of CpuUsage over fields[1..] of the "cpu" line.
RECURSIVE CpuTally(_, _, _)
CpuTally(fields, i, acc) ==
    IF i > Len(fields) THEN acc
    ELSE LET val == ParseUint(fields[i])
         IN  CpuTally(fields, i + 1,
                 [user  |-> IF i = 2 THEN val ELSE acc.user,
                  idle  |-> IF i = 5 THEN val ELSE acc.idle,
                  total |-> (acc.total + val) % UintMod])

\* The loop of CpuUsage over the lines: fields[0] of a line without fields
\* is an index out of range.
RECURSIVE CpuScan(_, _)
CpuScan(lines, n) ==
    IF n > Len(lines) THEN [panic |-> FALSE, user |-> 0, idle |-> 0, total |-> 0]
    ELSE IF Len(lines[n]) = 0
         THEN [panic |-> TRUE, user |-> 0, idle |-> 0, total |-> 0]
    ELSE IF lines[n][1] = S_cpu
         THEN [panic |-> FALSE] @@
              CpuTally(lines[n], 2, [user |-> 0, idle |-> 0, total |-> 0])
    ELSE CpuScan(lines, n + 1)

CpuUsage(stat) ==
    IF stat.present /\ stat.lines # <<>>
    THEN CpuScan(stat.lines, 1)
    ELSE [panic |-> FALSE, user |-> 0, idle |-> 0, total |-> 0]

\* DiskUsage with the subtraction left out: what C6 must tell apart.
DiskUsageNoSub(d) ==
    IF d.err THEN [used |-> 0, free |-> 0, total |-> 0]
    ELSE [used |-> d.total, free |-> d.free, total |-> d.total]

DiskUsage(d) ==
    IF d.err THEN [used |-> 0, free |-> 0, total |-> 0]
    ELSE [used |-> (d.total - d.free) % UintMod, free |-> d.free, total |-> d.total]

RECURSIVE MemScan(_, _, _)
MemScan(lines, n, acc) ==
    IF n > Len(lines) THEN acc
    ELSE LET fields == lines[n]
             val    == IF Len(fields) = 3 THEN ParseUint(fields[2]) ELSE 0
         IN  MemScan(lines, n + 1,
                 IF Len(fields) # 3 THEN acc
                 ELSE IF HasPrefix(fields[1], S_MemTotal)
                      THEN [acc EXCEPT !.total = (val * 1024) % UintMod]
                 ELSE IF HasPrefix(fields[1], S_MemFree)
                      THEN [acc EXCEPT !.free = (val * 1024) % UintMod]
                 ELSE acc)

\* MemoryUsage(true)
MemoryUsage(mi) ==
    IF ~mi.present THEN [used |-> 0, free |-> 0, total |-> 0]
    ELSE LET r == MemScan(mi.lines, 1, [used |-> 0, free |-> 0, total |-> 0])
         IN  [r EXCEPT !.used = (r.total - r.free) % UintMod]

NoSnapshot ==
    [CpuUser |-> FloatZero, CpuFree |-> FloatZero,
     DiskUsed |-> 0, DiskFree |-> 0, DiskTotal |-> 0,
     MemUsed |-> 0, MemFree |-> 0, MemTotal |-> 0]

GetSystemInfo(stat, d, mi) ==
    LET cpu == CpuUsage(stat)
        dsk == DiskUsage(d)
        mem == MemoryUsage(mi)
    IN  IF cpu.panic THEN [op |-> "GetSystemInfo", status |-> "panic", snap |-> NoSnapshot]
        ELSE [op |-> "GetSystemInfo", status |-> "ok",
              snap |-> [CpuUser   |-> FloatDiv(cpu.user, cpu.total),
                        CpuFree   |-> FloatDiv(cpu.idle, cpu.total),
                        DiskUsed  |-> dsk.used,
                        DiskFree  |-> dsk.free,
                        DiskTotal |-> dsk.total,
                        MemUsed   |-> mem.used,
                        MemFree   |-> mem.free,
                        MemTotal  |-> mem.total]]

----------------------------------------------------------------------------
(* The sources GetSystemInfo reads.                                        *)

\* All sequences over S of length at most n.
SeqUpTo(S, n) == UNION {[1..k -> S] : k \in 0..n}

NoFile == [present |-> FALSE, lines |-> <<>>]
File(ls) == [present |-> TRUE, lines |-> ls]

NumTokens == {<<"0">>, <<"1">>}

\* Lines of /proc/stat: the aggregate line with up to MaxNums counters, a
\* blank line, and lines of other kinds.
StatLines(maxNums) ==
    {<<S_cpu>> \o ns : ns \in SeqUpTo(NumTokens, maxNums)}
        \cup {<<>>, <<S_intr, <<"1">> >>, <<S_cpu0, <<"1">> >>}

StatFiles(maxNums, maxLines) ==
    {NoFile} \cup {File(ls) : ls \in SeqUpTo(StatLines(maxNums), maxLines)}

MemLines ==
    {<<>>,
     <<S_MemTotal \o <<":">>, <<"3">>, S_kB>>,
     <<S_MemFree \o <<":">>, <<"1">>, S_kB>>}

MemFiles(maxLines) == {NoFile} \cup {File(ls) : ls \in SeqUpTo(MemLines, maxLines)}

DiskAnswers(max) ==
    {[err |-> TRUE, total |-> 0, free |-> 0]}
        \cup {[err |-> FALSE, total |-> t, free |-> f] : t, f \in 0..max}

NoCall == [op |-> "none", status |-> "none", snap |-> NoSnapshot]

\* Values of the variables a behaviour does not exercise.
SysIdle  == procStat = NoFile /\ memInfo = NoFile
            /\ diskProv = [err |-> TRUE, total |-> 0, free |-> 0] /\ sysRes = NoCall

CallGetSystemInfo ==
    /\ sysRes.op = "none"
    /\ sysRes' = GetSystemInfo(procStat, diskProv, memInfo)
    /\ UNCHANGED <<procStat, memInfo, diskProv, cpuVars, portVars, privVars>>

CallDiskUsage ==
    /\ sysRes.op = "none"
    /\ LET r == DiskUsage(diskProv)
       IN  sysRes' = [op |-> "DiskUsage", status |-> "ok",
                      snap |-> [NoSnapshot EXCEPT !.DiskUsed = r.used,
                                                  !.DiskFree = r.free,
                                                  !.DiskTotal = r.total]]
    /\ UNCHANGED <<procStat, memInfo, diskProv, cpuVars, portVars, privVars>>

----------------------------------------------------------------------------
(* GetCpuInfo.                                                             *)

S_physical_id == <<"p", "h", "y", "s", "i", "c", "a", "l", " ", "i", "d">>
S_core_id     == <<"c", "o", "r", "e", " ", "i", "d">>
S_flags       == <<"f", "l", "a", "g", "s">>

\* Whether cpuRegTwoColumns ("\t+: ") matches s from position i on.
RECURSIVE TwoColumnsEnd(_, _)
TwoColumnsEnd(s, i) ==
    \* the position after the match that starts at i, or 0 when none does
    IF i > Len(s) \/ s[i] # "\t" THEN 0
    ELSE IF i + 2 <= Len(s) /\ s[i + 1] = ":" /\ s[i + 2] = " " THEN i + 3
    ELSE TwoColumnsEnd(s, i + 1)

\* cpuRegTwoColumns.Split(s, 2): cut at the leftmost match, once.
RECURSIVE TwoColumnsSplitFrom(_, _)
TwoColumnsSplitFrom(s, i) ==
    IF i > Len(s) THEN <<s>>
    ELSE IF TwoColumnsEnd(s, i) # 0
         THEN <<SubSeq(s, 1, i - 1), SubSeq(s, TwoColumnsEnd(s, i), Len(s))>>
    ELSE TwoColumnsSplitFrom(s, i + 1)

TwoColumnsSplit(s) == TwoColumnsSplitFrom(s, 1)

\* The core key without the physical id: what C7 must tell apart.
CoreKeyNoCpu(cpuID, coreVal) == coreVal

\* fmt.Sprintf("%s/%s", cpuID, sl[1])
CoreKey(cpuID, coreVal) == cpuID \o <<"/">> \o coreVal

S_vendor_id  == <<"v", "e", "n", "d", "o", "r", "_", "i", "d">>
S_model_name == <<"m", "o", "d", "e", "l", " ", "n", "a", "m", "e">>
S_cpu_MHz    == <<"c", "p", "u", " ", "M", "H", "z">>
S_cache_size == <<"c", "a", "c", "h", "e", " ", "s", "i", "z", "e">>

\* cpuRegExtraSpace.ReplaceAllLiteralString(s, " "): every run of spaces
\* becomes one space.
RECURSIVE ExtraSpaceFrom(_, _)
ExtraSpaceFrom(s, i) ==
    IF i > Len(s) THEN <<>>
    ELSE IF s[i] = " " /\ i > 1 /\ s[i - 1] = " " THEN ExtraSpaceFrom(s, i + 1)
    ELSE <<s[i]>> \o ExtraSpaceFrom(s, i + 1)

ExtraSpace(s) == ExtraSpaceFrom(s, 1)

\* strings.Replace(s, "- ", "-", 1): the first "- " loses its space.
RECURSIVE DashSpaceFrom(_, _)
DashSpaceFrom(s, i) ==
    IF i >= Len(s) THEN s
    ELSE IF s[i] = "-" /\ s[i + 1] = " "
         THEN SubSeq(s, 1, i) \o SubSeq(s, i + 2, Len(s))
    ELSE DashSpaceFrom(s, i + 1)

CleanModel(s) == DashSpaceFrom(ExtraSpace(s), 1)

\* cpuRegCacheSize (`^(\d+) KB$`): the digits of a match, <<>> when the
\* value does not match.
CacheSizeMatch(s) ==
    IF /\ Len(s) >= 4
       /\ SubSeq(s, Len(s) - 2, Len(s)) = <<" ", "K", "B">>
       /\ \A i \in 1..(Len(s) - 3) : s[i] \in Digits
    THEN SubSeq(s, 1, Len(s) - 3)
    ELSE <<>>

\* Whether strconv.ParseUint(s, 10, 64) of a digit string is in range.
RECURSIVE InRange(_, _, _)
InRange(s, i, acc) ==
    IF i > Len(s) THEN TRUE
    ELSE IF acc * 10 + DigitVal(s[i]) >= UintMod THEN FALSE
    ELSE InRange(s, i + 1, acc * 10 + DigitVal(s[i]))

\* The "cache size" case for a field that is still 0: the number of a
\* matching value that parses, else 0.
CacheValue(s) ==
    IF CacheSizeMatch(s) # <<>> /\ InRange(CacheSizeMatch(s), 1, 0)
    THEN ParseUint(CacheSizeMatch(s))
    ELSE 0

\* A field that every line with its key overwrites: what C11 must tell
\* apart.
SetAlways(old, new, unset) == new

\* if res.X == unset { res.X = new }
SetIfUnset(old, new, unset) == IF old = unset THEN new ELSE old

\* The scan loop of GetCpuInfo: st holds the two maps (as key sets),
\* cpuID and the four first-seen fields.  sl[1] of a one-element split is
\* an index out of range.
RECURSIVE CpuInfoScan(_, _, _)
CpuInfoScan(lines, n, st) ==
    IF n > Len(lines) \/ st.panic THEN st
    ELSE LET sl == TwoColumnsSplit(lines[n])
         IN  CpuInfoScan(lines, n + 1,
                 IF sl[1] = S_physical_id
                 THEN IF Len(sl) < 2 THEN [st EXCEPT !.panic = TRUE]
                      ELSE [st EXCEPT !.cpuID = sl[2],
                                      !.cpu = st.cpu \cup {sl[2]}]
                 ELSE IF sl[1] = S_core_id
                 THEN IF Len(sl) < 2 THEN [st EXCEPT !.panic = TRUE]
                      ELSE [st EXCEPT !.core = st.core \cup {CoreKey(st.cpuID, sl[2])}]
                 ELSE IF sl[1] = S_vendor_id
                 THEN IF Len(sl) < 2 THEN [st EXCEPT !.panic = TRUE]
                      ELSE [st EXCEPT !.Vendor = SetIfUnset(st.Vendor, sl[2], <<>>)]
                 ELSE IF sl[1] = S_model_name
                 THEN IF Len(sl) < 2 THEN [st EXCEPT !.panic = TRUE]
                      ELSE [st EXCEPT !.Model = SetIfUnset(st.Model, CleanModel(sl[2]), <<>>)]
                 ELSE IF sl[1] = S_cpu_MHz
                 THEN IF Len(sl) < 2 THEN [st EXCEPT !.panic = TRUE]
                      ELSE [st EXCEPT !.Speed = SetIfUnset(st.Speed, sl[2], <<>>)]
                 ELSE IF sl[1] = S_cache_size
                 THEN IF Len(sl) < 2 THEN [st EXCEPT !.panic = TRUE]
                      ELSE [st EXCEPT !.Cache = SetIfUnset(st.Cache, CacheValue(sl[2]), 0)]
                 ELSE st)

\* The fields of CpuInfo that GetCpuInfo leaves at their zero values.
NoCpuFields == [Vendor |-> <<>>, Model |-> <<>>, Speed |-> <<>>, Cache |-> 0]

GetCpuInfo(dump, ncpu) ==
    IF ~dump.present
    THEN [op |-> "GetCpuInfo", status |-> "ok", Cpus |-> 0, Cores |-> 0, Threads |-> ncpu]
             @@ NoCpuFields
    ELSE LET st == CpuInfoScan(dump.lines, 1,
                       [cpu |-> {}, core |-> {}, cpuID |-> <<>>, panic |-> FALSE]
                           @@ NoCpuFields)
         IN  IF st.panic
             THEN [op |-> "GetCpuInfo", status |-> "panic",
                   Cpus |-> 0, Cores |-> 0, Threads |-> ncpu] @@ NoCpuFields
             ELSE [op |-> "GetCpuInfo", status |-> "ok",
                   Cpus |-> Cardinality(st.cpu), Cores |-> Cardinality(st.core),
                   Threads |-> ncpu,
                   Vendor |-> st.Vendor, Model |-> st.Model,
                   Speed |-> st.Speed, Cache |-> st.Cache]

\* The lines of /proc/cpuinfo, in the kernel's format: key, tabs, ": ",
\* value; lines of other keys; the blank line that ends a block.
IdVals == {<<"0">>, <<"1">>}

PhysLine(v) == S_physical_id \o <<"\t", ":", " ">> \o v
CoreLine(v) == S_core_id \o <<"\t", "\t", ":", " ">> \o v
FlagsLine   == S_flags \o <<"\t", "\t", ":", " ", "f", "p", "u">>

CpuLines ==
    {PhysLine(v) : v \in IdVals} \cup {CoreLine(v) : v \in IdVals}
        \cup {FlagsLine, <<>>}

CpuDumps(maxLines) == {NoFile} \cup {File(ls) : ls \in SeqUpTo(CpuLines, maxLines)}

NoCpuCall ==
    [op |-> "none", status |-> "none", Cpus |-> 0, Cores |-> 0, Threads |-> 0]
        @@ NoCpuFields

\* Lines of the four first-seen keys.  A value may be empty; a cache size
\* may have another form than "<digits> KB".
KeyLine(key, v) == key \o <<"\t", ":", " ">> \o v

VendorVals == {<<>>, <<"I">>, <<"A">>}
ModelVals  == {<<>>, <<"X", " ", " ", "Y">>, <<"X", "-", " ", "Y">>}
SpeedVals  == {<<>>, <<"1">>, <<"2">>}
CacheVals  ==
    {<<"8", "1", "9", "2", " ", "K", "B">>, <<"8", "M", "B">>,
     <<"0", " ", "K", "B">>, <<"5", "1", "2", " ", "K", "B">>}

CpuFieldLines ==
    {KeyLine(S_vendor_id, v) : v \in VendorVals}
        \cup {KeyLine(S_model_name, v) : v \in ModelVals}
        \cup {KeyLine(S_cpu_MHz, v) : v \in SpeedVals}
        \cup {KeyLine(S_cache_size, v) : v \in CacheVals}

CpuFieldDumps(maxLines) ==
    {NoFile} \cup {File(ls) : ls \in SeqUpTo(CpuFieldLines, maxLines)}

CpuIdle == cpuDump = NoFile /\ numCPU = 1 /\ cpuRes = NoCpuCall

CallGetCpuInfo ==
    /\ cpuRes.op = "none"
    /\ cpuRes' = GetCpuInfo(cpuDump, numCPU)
    /\ UNCHANGED <<cpuDump, numCPU, sysVars, portVars, privVars>>

----------------------------------------------------------------------------
(* GetPidByPort.                                                           *)

S_0A == <<"0", "A">>
S_01 == <<"0", "1">>

HexDigits == Digits \cup {"A", "B", "C", "D", "E", "F"}

HexVal(c) ==
    CASE c = "A" -> 10 [] c = "B" -> 11 [] c = "C" -> 12
      [] c = "D" -> 13 [] c = "E" -> 14 [] c = "F" -> 15
      [] OTHER -> DigitVal(c)

RECURSIVE HexDigitsVal(_, _, _)
HexDigitsVal(s, i, acc) ==
    IF i > Len(s) THEN acc ELSE HexDigitsVal(s, i + 1, acc * 16 + HexVal(s[i]))

\* KConv.Hex2Dec with the error dropped: 0 when s is not a hexadecimal number.
Hex2Dec(s) ==
    IF s = <<>> \/ \E i \in 1..Len(s) : s[i] \notin HexDigits THEN 0
    ELSE HexDigitsVal(s, 1, 0)

\* strings.Split(s, ":")
RECURSIVE SplitColonFrom(_, _, _)
SplitColonFrom(s, i, cur) ==
    IF i > Len(s) THEN <<cur>>
    ELSE IF s[i] = ":" THEN <<cur>> \o SplitColonFrom(s, i + 1, <<>>)
    ELSE SplitColonFrom(s, i + 1, Append(cur, s[i]))

SplitColon(s) == SplitColonFrom(s, 1, <<>>)

\* KFile.ReadInArray with the error dropped: no lines for a missing file.
ReadInArray(f) == IF f.present THEN f.lines ELSE <<>>

\* getPidByInode: the pid of the first link whose target is socket:[inode].
RECURSIVE getPidByInode(_, _, _)
getPidByInode(inode, links, n) ==
    IF n > Len(links) THEN 0
    ELSE IF links[n].kind = "socket" /\ links[n].ino = inode THEN links[n].pid
    ELSE getPidByInode(inode, links, n + 1)

\* The loop of GetPidByPort over lines[1:] of one table, from line n on.
RECURSIVE ScanTable(_, _, _, _)
ScanTable(lines, n, port, links) ==
    IF n > Len(lines) THEN [panic |-> FALSE, pid |-> 0]
    ELSE LET fields == lines[n]
         IN  IF Len(fields) < 10 THEN ScanTable(lines, n + 1, port, links)
             ELSE IF fields[4] # S_0A THEN ScanTable(lines, n + 1, port, links)
             ELSE LET ipport == SplitColon(fields[2])
                  IN  IF Len(ipport) < 2 THEN [panic |-> TRUE, pid |-> 0]
                      ELSE IF Hex2Dec(ipport[2]) # port
                           THEN ScanTable(lines, n + 1, port, links)
                      ELSE IF getPidByInode(fields[10], links, 1) > 0
                           THEN [panic |-> FALSE,
                                 pid |-> getPidByInode(fields[10], links, 1)]
                      ELSE ScanTable(lines, n + 1, port, links)

TableOrder == <<"tcp", "udp", "tcp6", "udp6">>

\* The loop of GetPidByPort over the files: lines[1:] of an empty slice is
\* a slice bound out of range.
RECURSIVE ScanFiles(_, _, _, _)
ScanFiles(tables, fi, port, links) ==
    IF fi > Len(TableOrder) THEN [panic |-> FALSE, pid |-> 0]
    ELSE LET lines == ReadInArray(tables[TableOrder[fi]])
         IN  IF Len(lines) < 1 THEN [panic |-> TRUE, pid |-> 0]
             ELSE LET r == ScanTable(lines, 2, port, links)
                  IN  IF r.panic \/ r.pid > 0 THEN r
                      ELSE ScanFiles(tables, fi + 1, port, links)

GetPidByPort(tables, links, port) ==
    LET r == ScanFiles(tables, 1, port, links)
    IN  [op |-> "GetPidByPort",
         status |-> IF r.panic THEN "panic" ELSE "ok",
         pid |-> r.pid]

\* The socket tables: a header line, then records.  A record's fields are
\* sl, local_address, rem_address, st, five more, inode.
TableNames == {"tcp", "udp", "tcp6", "udp6"}

Header == [i \in 1..12 |-> <<"h">>]

SockLine(local, st, inode) ==
    << <<"0", ":">>, local, <<"0", ":", "0">>, st,
       <<"0">>, <<"0">>, <<"0">>, <<"0">>, <<"0">>, inode >>

Addr8080  == <<"7", "F", ":", "1", "F", "9", "0">>
Addr80    == <<"7", "F", ":", "5", "0">>
AddrNoCol == <<"7", "F">>
LocalAddrs == {Addr8080, Addr80, AddrNoCol}

Ino12345 == <<"1", "2", "3", "4", "5">>
Ino6     == <<"6">>
Inodes == {Ino12345, Ino6}

Ports == {8080, 80}

\* Listening records, one established connection, and a blank line.
SockLines ==
    {SockLine(l, S_0A, i) : l \in LocalAddrs, i \in Inodes}
        \cup {SockLine(Addr8080, S_01, Ino12345), <<>>}

Links ==
    {[pid |-> 777, kind |-> "socket", ino |-> Ino12345],
     [pid |-> 9,   kind |-> "socket", ino |-> Ino12345],
     [pid |-> 9,   kind |-> "socket", ino |-> Ino6],
     [pid |-> 777, kind |-> "file",   ino |-> <<>>]}

\* The tables with the files of pres present and the records recs, each
\* <<line, table>>, appended to their tables in order.
TablesOf(pres, recs) ==
    [f \in TableNames |->
        IF f \notin pres THEN NoFile
        ELSE LET mine == SelectSeq(recs, LAMBDA r : r[2] = f)
             IN  File(<<Header>> \o [i \in 1..Len(mine) |-> mine[i][1]])]

TableSets(maxLines) ==
    UNION {{TablesOf(pres, recs) : recs \in SeqUpTo(SockLines \X pres, maxLines)}
              : pres \in SUBSET TableNames}

NoPortCall == [op |-> "none", status |-> "none", pid |-> 0]

PortIdle == netTables = [f \in TableNames |-> NoFile] /\ fdLinks = <<>>
            /\ portArg = 0 /\ portRes = NoPortCall

CallGetPidByPort ==
    /\ portRes.op = "none"
    /\ portRes' = GetPidByPort(netTables, fdLinks, portArg)
    /\ UNCHANGED <<netTables, fdLinks, portArg, sysVars, cpuVars, privVars>>

----------------------------------------------------------------------------
(* PrivateCIDR, IsPrivateIp, ClientIp.                                     *)

\* An address is its family, its leading 16 bits and whether the rest is
\* the loopback tail (..:1); a block is a family, leading bits and a length.
Ip(fam, hi, one) == [ok |-> TRUE, fam |-> fam, hi |-> hi, one |-> one]
NoIp == [ok |-> FALSE, fam |-> 0, hi |-> 0, one |-> FALSE]

\* net.ParseIP on the literals of the model; nil for anything else.
ParseIP(a) ==
    CASE a = "10.0.0.1"   -> Ip(4, 10 * 256, TRUE)
      [] a = "172.20.1.1" -> Ip(4, 172 * 256 + 20, FALSE)
      [] a = "8.8.8.8"    -> Ip(4, 8 * 256 + 8, FALSE)
      [] a = "::1"        -> Ip(6, 0, TRUE)
      [] OTHER            -> NoIp

Cidr(fam, hi, bits) == [fam |-> fam, hi |-> hi, bits |-> bits]

Pow2(n) == IF n <= 0 THEN 1 ELSE 2 ^ n

PrivateCIDR ==
    << Cidr(4, 127 * 256, 8),        \* 127.0.0.1/8
       Cidr(4, 10 * 256, 8),         \* 10.0.0.0/8
       Cidr(4, 172 * 256 + 16, 12),  \* 172.16.0.0/12
       Cidr(4, 192 * 256 + 168, 16), \* 192.168.0.0/16
       Cidr(4, 169 * 256 + 254, 16), \* 169.254.0.0/16
       Cidr(6, 0, 128),              \* ::1/128
       Cidr(6, 64512, 7),            \* fc00::/7
       Cidr(6, 65152, 10) >>         \* fe80::/10

\* (*net.IPNet).Contains
Contains(c, ip) ==
    /\ c.fam = ip.fam
    /\ IF c.bits <= 16
       THEN ip.hi \div Pow2(16 - c.bits) = c.hi \div Pow2(16 - c.bits)
       ELSE ip.hi = c.hi /\ ip.one

InAny(cidrs, ip) == \E i \in 1..Len(cidrs) : Contains(cidrs[i], ip)

Callers == 1..NumCallers

Addresses == {"10.0.0.1", "172.20.1.1", "8.8.8.8", "::1", ""}

\* A call: IsPrivateIp(args[1]), or ClientIp of a request whose
\* X-Forwarded-For splits into args and whose X-Real-Ip is xreal.
Calls ==
    {[op |-> "IsPrivateIp", args |-> <<a>>, xreal |-> ""] : a \in Addresses}
        \cup {[op |-> "ClientIp", args |-> <<a>>, xreal |-> x]
                  : a \in {"10.0.0.1", "8.8.8.8", ""}, x \in {"", "::1"}}
        \cup {[op |-> "ClientIp", args |-> <<"10.0.0.1", "8.8.8.8">>, xreal |-> ""]}

\* Whether another goroutine is about to assign KPrivCidrs: an access by p
\* is then unordered with that write.
Racing(p) == \E q \in Callers \ {p} : callers[q].pc = "init"

\* What IsPrivateIp hands back to its caller p.
Return(p, private, err) ==
    LET c == callers[p]
    IN  IF c.op = "IsPrivateIp"
        THEN [c EXCEPT !.pc = "done",
                       !.out = IF err THEN "error"
                               ELSE IF private THEN "true" ELSE "false"]
        ELSE IF ~private /\ ~err
             THEN [c EXCEPT !.pc = "done", !.out = c.args[c.i]]
        ELSE IF c.i < Len(c.args)
             THEN [c EXCEPT !.pc = "call", !.i = c.i + 1]
        ELSE [c EXCEPT !.pc = "done",
                       !.out = IF c.xreal = "::1" THEN "127.0.0.1" ELSE c.xreal]

\* ClientIp up to its first IsPrivateIp call.
Start(p) ==
    /\ callers[p].pc = "start"
    /\ callers' = [callers EXCEPT ![p] =
           IF @.op = "ClientIp" /\ @.xreal = "" /\ @.args = <<"">>
           THEN [@ EXCEPT !.pc = "done", !.out = "remote"]
           ELSE [@ EXCEPT !.pc = "call"]]
    /\ UNCHANGED <<KPrivCidrs, cidrWrites, sysVars, cpuVars, portVars>>

\* IsPrivateIp: net.ParseIP and the error return.
Parse(p) ==
    /\ callers[p].pc = "call"
    /\ callers' = [callers EXCEPT ![p] =
           IF ParseIP(@.args[@.i]).ok THEN [@ EXCEPT !.pc = "check"]
           ELSE Return(p, FALSE, TRUE)]
    /\ UNCHANGED <<KPrivCidrs, cidrWrites, sysVars, cpuVars, portVars>>

\* IsPrivateIp: if KPrivCidrs == nil.  Unordered with a write, the test
\* may go either way.
CheckNil(p) ==
    /\ callers[p].pc = "check"
    /\ \E seesNil \in BOOLEAN :
          /\ Racing(p) \/ seesNil = (KPrivCidrs = <<>>)
          /\ callers' = [callers EXCEPT ![p].pc = IF seesNil THEN "init" ELSE "range"]
    /\ UNCHANGED <<KPrivCidrs, cidrWrites, sysVars, cpuVars, portVars>>

\* IsPrivateIp: KPrivCidrs = ko.PrivateCIDR()
InitCidrs(p) ==
    /\ callers[p].pc = "init"
    /\ KPrivCidrs' = PrivateCIDR
    /\ cidrWrites' = cidrWrites + 1
    /\ callers' = [callers EXCEPT ![p].pc = "range"]
    /\ UNCHANGED <<sysVars, cpuVars, portVars>>

\* IsPrivateIp: the loop over KPrivCidrs.  Unordered with a write, the
\* read may see the old list, the new one, or a torn slice header.
RangeCidrs(p) ==
    /\ callers[p].pc = "range"
    /\ \/ callers' = [callers EXCEPT ![p] =
              Return(p, InAny(KPrivCidrs, ParseIP(@.args[@.i])), FALSE)]
       \/ /\ Racing(p)
          /\ \/ callers' = [callers EXCEPT ![p] = Return(p, FALSE, FALSE)]
             \/ callers' = [callers EXCEPT ![p] = [@ EXCEPT !.pc = "done", !.out = "panic"]]
    /\ UNCHANGED <<KPrivCidrs, cidrWrites, sysVars, cpuVars, portVars>>

PrivIdle == KPrivCidrs = <<>> /\ cidrWrites = 0 /\ callers = <<>>

----------------------------------------------------------------------------
(* Specifications: one per group of operations; the variables of the      *)
(* other groups stay at their idle values.                                 *)

SysInit ==
    /\ procStat \in StatFiles(MaxNums, MaxStatLines)
    /\ memInfo \in MemFiles(MaxMemLines)
    /\ diskProv \in DiskAnswers(MaxSysDisk)
    /\ sysRes = NoCall
    /\ CpuIdle /\ PortIdle /\ PrivIdle

SysNext == CallGetSystemInfo

SpecSys == SysInit /\ [][SysNext]_vars

DiskInit ==
    /\ procStat = NoFile /\ memInfo = NoFile
    /\ diskProv \in DiskAnswers(MaxDisk)
    /\ sysRes = NoCall
    /\ CpuIdle /\ PortIdle /\ PrivIdle

DiskNext == CallDiskUsage

SpecDisk == DiskInit /\ [][DiskNext]_vars

CpuInit ==
    /\ cpuDump \in CpuDumps(MaxCpuLines)
    /\ numCPU \in 1..MaxThreads
    /\ cpuRes = NoCpuCall
    /\ SysIdle /\ PortIdle /\ PrivIdle

CpuNext == CallGetCpuInfo

SpecCpu == CpuInit /\ [][CpuNext]_vars

CpuFieldInit ==
    /\ cpuDump \in CpuFieldDumps(MaxFieldLines)
    /\ numCPU \in 1..MaxThreads
    /\ cpuRes = NoCpuCall
    /\ SysIdle /\ PortIdle /\ PrivIdle

SpecCpuFields == CpuFieldInit /\ [][CpuNext]_vars

PortInit ==
    /\ netTables \in TableSets(MaxSockLines)
    /\ fdLinks \in SeqUpTo(Links, MaxFds)
    /\ portArg \in Ports
    /\ portRes = NoPortCall
    /\ SysIdle /\ CpuIdle /\ PrivIdle

PortNext == CallGetPidByPort

SpecPort == PortInit /\ [][PortNext]_vars

PrivInit ==
    /\ KPrivCidrs = <<>>
    /\ cidrWrites = 0
    /\ callers \in [Callers -> {[op |-> k.op, args |-> k.args, xreal |-> k.xreal,
                                  pc |-> "start", i |-> 1, out |-> ""] : k \in Calls}]
    /\ SysIdle /\ CpuIdle /\ PortIdle

PrivNext ==
    \E p \in Callers :
        Start(p) \/ Parse(p) \/ CheckNil(p) \/ InitCidrs(p) \/ RangeCidrs(p)

SpecPriv == PrivInit /\ [][PrivNext]_vars

----------------------------------------------------------------------------
(* What the claims compare the code with.                                  *)

\* Comparisons of a float64 ratio; every comparison with NaN is false.
IsZero(f)  == f.k = "num" /\ f.n = 0
GeqZero(f) == f.k \in {"num", "inf"}
LeqOne(f)  == f.k = "num" /\ f.n <= f.d
SumLeqOne(f, g) ==
    f.k = "num" /\ g.k = "num" /\ f.n * g.d + g.n * f.d <= f.d * g.d

SysCalled  == sysRes.op = "GetSystemInfo"
DiskCalled == sysRes.op = "DiskUsage"
CpuCalled  == cpuRes.op = "GetCpuInfo"
PortCalled == portRes.op = "GetPidByPort"

\* The key lines of a dump, read off the way the lines are built.
IsPhysLine(l) == \E v \in IdVals : l = PhysLine(v)
IsCoreLine(l) == \E v \in IdVals : l = CoreLine(v)
PhysVal(l) == CHOOSE v \in IdVals : l = PhysLine(v)
CoreVal(l) == CHOOSE v \in IdVals : l = CoreLine(v)

Max(S) == CHOOSE m \in S : \A o \in S : o <= m

\* The distinct physical ids of a dump.
SeenCpus(lines) ==
    {PhysVal(lines[i]) : i \in {j \in 1..Len(lines) : IsPhysLine(lines[j])}}

\* The physical id seen most recently before line i ("" when none was).
LastPhys(lines, i) ==
    LET before == {j \in 1..(i - 1) : IsPhysLine(lines[j])}
    IN  IF before = {} THEN <<>> ELSE PhysVal(lines[Max(before)])

\* The distinct (most recent physical id, core id) pairs of a dump.
SeenPairs(lines) ==
    {<<LastPhys(lines, i), CoreVal(lines[i])>>
        : i \in {j \in 1..Len(lines) : IsCoreLine(lines[j])}}

\* A well-formed dump: its key lines come in blocks, each a physical id
\* followed by that processor's core id.
WellFormed(dump) ==
    /\ dump.present
    /\ LET keys == SelectSeq(dump.lines, LAMBDA l : IsPhysLine(l) \/ IsCoreLine(l))
       IN  /\ Len(keys) % 2 = 0
           /\ \A i \in 1..Len(keys) :
                 IF i % 2 = 1 THEN IsPhysLine(keys[i]) ELSE IsCoreLine(keys[i])

\* A record that answers a query for port: listening, local port equal to
\* port, inode resolved to a pid.
Answers(fields, port, links) ==
    /\ Len(fields) >= 10
    /\ fields[4] = S_0A
    /\ Len(SplitColon(fields[2])) >= 2
    /\ Hex2Dec(SplitColon(fields[2])[2]) = port
    /\ getPidByInode(fields[10], links, 1) # 0

\* The places <<table, line>> of the records after the header lines.
Places(tables) ==
    {<<fi, li>> \in (1..4) \X (2..(MaxSockLines + 1)) :
        /\ tables[TableOrder[fi]].present
        /\ li <= Len(tables[TableOrder[fi]].lines)}

RecordAt(tables, pl) == tables[TableOrder[pl[1]]].lines[pl[2]]

\* The pid of the first answering record in table order, top to bottom;
\* 0 when there is none.
ExpectedPid(tables, links, port) ==
    LET hits == {pl \in Places(tables) : Answers(RecordAt(tables, pl), port, links)}
        first == CHOOSE m \in hits : \A o \in hits :
                     m[1] < o[1] \/ (m[1] = o[1] /\ m[2] <= o[2])
    IN  IF hits = {} THEN 0
        ELSE getPidByInode(RecordAt(tables, first)[10], links, 1)

SomeTableMissing == \E f \in TableNames : ~netTables[f].present

\* A record with ten fields, listening, whose local address has no colon.
NoColon(fields) ==
    Len(fields) >= 10 /\ fields[4] = S_0A /\ Len(SplitColon(fields[2])) < 2

Malformed(fields) == Len(fields) < 10 \/ NoColon(fields)

SomeRecord(tables, P(_)) == \E pl \in Places(tables) : P(RecordAt(tables, pl))

----------------------------------------------------------------------------
(* The claims.                                                             *)

\* C1: GetPidByPort(P) returns the pid the matcher gives for the first
\* listening record with local port P and a resolvable inode, scanning tcp,
\* udp, tcp6, udp6 top to bottom, and 0 when there is no such record, for
\* every content of the tables and of the descriptor set.
C1_FirstMatchForEveryContent ==
    PortCalled =>
        /\ portRes.status = "ok"
        /\ portRes.pid = ExpectedPid(netTables, fdLinks, portArg)

\* C2: with a socket table missing, GetPidByPort completes without a
\* failure, scans the other tables and returns 0 if none has a match.
C2_MissingTableIsEmpty ==
    (PortCalled /\ SomeTableMissing /\ ~SomeRecord(netTables, NoColon)) =>
        /\ portRes.status = "ok"
        /\ portRes.pid = ExpectedPid(netTables, fdLinks, portArg)

\* C3: when the tick total of CpuUsage is zero, CpuUser and CpuFree of the
\* snapshot are exactly 0 and the call does not fail.
C3_ZeroTotalGivesZeroRatios ==
    (SysCalled /\ ~CpuUsage(procStat).panic /\ CpuUsage(procStat).total = 0) =>
        /\ sysRes.status = "ok"
        /\ IsZero(sysRes.snap.CpuUser)
        /\ IsZero(sysRes.snap.CpuFree)

\* C4: every snapshot GetSystemInfo returns has 0 <= CpuUser <= 1,
\* 0 <= CpuFree <= 1 and CpuUser + CpuFree <= 1.
C4_RatiosInUnitInterval ==
    (SysCalled /\ sysRes.status = "ok") =>
        /\ GeqZero(sysRes.snap.CpuUser) /\ LeqOne(sysRes.snap.CpuUser)
        /\ GeqZero(sysRes.snap.CpuFree) /\ LeqOne(sysRes.snap.CpuFree)
        /\ SumLeqOne(sysRes.snap.CpuUser, sysRes.snap.CpuFree)

\* C5: GetSystemInfo never fails, whatever its sources hold, and every
\* field of an unavailable source has its zero default.
C5_SnapshotNeverFails ==
    SysCalled =>
        /\ sysRes.status = "ok"
        /\ ~procStat.present =>
              IsZero(sysRes.snap.CpuUser) /\ IsZero(sysRes.snap.CpuFree)
        /\ diskProv.err =>
              /\ sysRes.snap.DiskUsed = 0
              /\ sysRes.snap.DiskFree = 0
              /\ sysRes.snap.DiskTotal = 0
        /\ ~memInfo.present =>
              /\ sysRes.snap.MemUsed = 0
              /\ sysRes.snap.MemFree = 0
              /\ sysRes.snap.MemTotal = 0

\* C6: DiskUsage reports the provider's total and free and, when
\* free <= total, used with used + free = total; all three are 0 when the
\* provider fails.
C6_UsedPlusFreeIsTotal ==
    DiskCalled =>
        IF diskProv.err
        THEN /\ sysRes.snap.DiskUsed = 0
             /\ sysRes.snap.DiskFree = 0
             /\ sysRes.snap.DiskTotal = 0
        ELSE /\ sysRes.snap.DiskFree = diskProv.free
             /\ sysRes.snap.DiskTotal = diskProv.total
             /\ diskProv.free <= diskProv.total =>
                   sysRes.snap.DiskUsed + sysRes.snap.DiskFree = sysRes.snap.DiskTotal

\* C6 witness: total 5 and free 2 give used 3.
C6_Witness ==
    /\ DiskCalled
    /\ diskProv = [err |-> FALSE, total |-> 5, free |-> 2]
    /\ sysRes.snap.DiskUsed = 3

\* C7: Cpus is the number of distinct physical ids of the dump and Cores
\* the number of distinct (most recent physical id, core id) pairs, however
\* many blocks the dump has.
C7_CountsDistinctIdsAndPairs ==
    CpuCalled =>
        /\ cpuRes.status = "ok"
        /\ cpuRes.Cpus = Cardinality(SeenCpus(cpuDump.lines))
        /\ cpuRes.Cores = Cardinality(SeenPairs(cpuDump.lines))

\* C7 witness: two packages whose core ids both start at 0 are two cores.
C7_Witness ==
    /\ CpuCalled
    /\ cpuDump = File(<<PhysLine(<<"0">>), CoreLine(<<"0">>),
                         PhysLine(<<"1">>), CoreLine(<<"0">>)>>)
    /\ cpuRes.Cpus = 2
    /\ cpuRes.Cores = 2

\* C8: for a well-formed dump, Cpus <= Cores and Cores <= Threads.
C8_CpusCoresThreadsOrdered ==
    (CpuCalled /\ WellFormed(cpuDump)) =>
        /\ cpuRes.Cpus <= cpuRes.Cores
        /\ cpuRes.Cores <= cpuRes.Threads

\* C9: concurrent calls share no mutable state: no call is about to write
\* KPrivCidrs while another is about to read or write it, and the list is
\* assigned at most once.
C9_NoSharedMutableState ==
    /\ cidrWrites <= 1
    /\ \A p, q \in Callers :
          (p # q /\ callers[p].pc = "init") =>
              callers[q].pc \notin {"check", "init", "range"}

\* C10: a record with fewer than ten fields, or whose local address has no
\* colon, is skipped: the scan does not fail and goes on to the later lines
\* and tables.
C10_MalformedRecordSkipped ==
    (PortCalled /\ ~SomeTableMissing /\ SomeRecord(netTables, Malformed)) =>
        /\ portRes.status = "ok"
        /\ portRes.pid = ExpectedPid(netTables, fdLinks, portArg)

\* The lines of a dump that carry key, and the value of such a line, read
\* off the way the lines are built.
KeyIdx(lines, key, vals) ==
    {j \in 1..Len(lines) : \E v \in vals : lines[j] = KeyLine(key, v)}

KeyVal(l, key, vals) == CHOOSE v \in vals : l = KeyLine(key, v)

Min(S) == CHOOSE m \in S : \A o \in S : m <= o

\* What a value of each key stands for in its field.
VendorOf(v) == v
SpeedOf(v)  == v
ModelOf(v) ==
    CASE v = <<"X", " ", " ", "Y">> -> <<"X", " ", "Y">>
      [] v = <<"X", "-", " ", "Y">> -> <<"X", "-", "Y">>
      [] OTHER -> v
CacheOf(v) ==
    CASE v = <<"8", "1", "9", "2", " ", "K", "B">> -> 8192
      [] v = <<"5", "1", "2", " ", "K", "B">> -> 512
      [] OTHER -> 0

\* The field as the first line carrying key gives it; unset without one.
FirstLineValue(lines, key, vals, Of(_), unset) ==
    LET idx == KeyIdx(lines, key, vals)
    IN  IF idx = {} THEN unset ELSE Of(KeyVal(lines[Min(idx)], key, vals))

\* The field as the first line carrying key with a value other than unset
\* gives it; unset without one.
FirstSetValue(lines, key, vals, Of(_), unset) ==
    LET idx == {j \in KeyIdx(lines, key, vals) :
                   Of(KeyVal(lines[j], key, vals)) # unset}
    IN  IF idx = {} THEN unset ELSE Of(KeyVal(lines[Min(idx)], key, vals))

\* C11 as stated: Vendor, Model, Speed and Cache each take their value from
\* the first line of the dump carrying their key and no later line changes
\* them; a cache size not of the form "<digits> KB" leaves Cache at 0.
C11_FirstLineOnly ==
    CpuCalled =>
        /\ cpuRes.Vendor =
              FirstLineValue(cpuDump.lines, S_vendor_id, VendorVals, VendorOf, <<>>)
        /\ cpuRes.Model =
              FirstLineValue(cpuDump.lines, S_model_name, ModelVals, ModelOf, <<>>)
        /\ cpuRes.Speed =
              FirstLineValue(cpuDump.lines, S_cpu_MHz, SpeedVals, SpeedOf, <<>>)
        /\ cpuRes.Cache =
              FirstLineValue(cpuDump.lines, S_cache_size, CacheVals, CacheOf, 0)

\* C11 as amended: Vendor, Model, Speed and Cache each take their value
\* from the first line carrying their key whose value is not empty (for
\* Cache: is "<digits> KB" with a number other than 0), and no later line
\* changes them; "8192 KB" gives 8192, "8MB" gives 0.
C11_FirstSetValueKept ==
    CpuCalled =>
        /\ cpuRes.status = "ok"
        /\ cpuRes.Vendor =
              FirstSetValue(cpuDump.lines, S_vendor_id, VendorVals, VendorOf, <<>>)
        /\ cpuRes.Model =
              FirstSetValue(cpuDump.lines, S_model_name, ModelVals, ModelOf, <<>>)
        /\ cpuRes.Speed =
              FirstSetValue(cpuDump.lines, S_cpu_MHz, SpeedVals, SpeedOf, <<>>)
        /\ cpuRes.Cache =
              FirstSetValue(cpuDump.lines, S_cache_size, CacheVals, CacheOf, 0)

\* C11 witness: "8MB" leaves Cache at 0, "8192 KB" sets it, and the later
\* "512 KB" does not change it.
C11_Witness ==
    /\ CpuCalled
    /\ cpuDump = File(<<KeyLine(S_cache_size, <<"8", "M", "B">>),
                         KeyLine(S_cache_size, <<"8", "1", "9", "2", " ", "K", "B">>),
                         KeyLine(S_cache_size, <<"5", "1", "2", " ", "K", "B">>)>>)
    /\ cpuRes.Cache = 8192

----------------------------------------------------------------------------
(* What does hold of the operations the refuted claims are about.          *)

\* GetPidByPort returns the first match whenever every table is there and
\* no listening record lacks the colon.
PortFirstMatchWhenReadable ==
    (PortCalled /\ ~SomeTableMissing /\ ~SomeRecord(netTables, NoColon)) =>
        /\ portRes.status = "ok"
        /\ portRes.pid = ExpectedPid(netTables, fdLinks, portArg)

\* The ratios are in range whenever the tick total is positive.
RatiosInRangeWhenTotalPositive ==
    (SysCalled /\ sysRes.status = "ok" /\ CpuUsage(procStat).total > 0
        /\ CpuUsage(procStat).user + CpuUsage(procStat).idle <= CpuUsage(procStat).total) =>
        /\ LeqOne(sysRes.snap.CpuUser) /\ LeqOne(sysRes.snap.CpuFree)
        /\ SumLeqOne(sysRes.snap.CpuUser, sysRes.snap.CpuFree)

\* A well-formed dump has no more packages than cores.
CpusAtMostCoresWhenWellFormed ==
    (CpuCalled /\ WellFormed(cpuDump)) => cpuRes.Cpus <= cpuRes.Cores

====
